---- MODULE Spec2Model ----
(***************************************************************************)
(* Model of the seller-apis synchronisation scripts: seller.py (Ozon,      *)
(* "Marketplace A") and market.py (Yandex.Market, "Marketplace B").        *)
(*                                                                         *)
(* Python strings are modelled as sequences of one-character tokens, so    *)
(* that splitting, filtering and integer parsing are computed character by *)
(* character.  Non-ASCII characters are written as ASCII token names       *)
(* ("cyr_r" for the Cyrillic letter er, "arab_3" for ARABIC-INDIC DIGIT    *)
(* THREE, "tab", "lf", "vt", "ff", "cr" for the control characters 9 to    *)
(* 13, "nbsp" for NO-BREAK SPACE, "u2003" for the character U+2003).       *)
(***************************************************************************)
EXTENDS Integers, Sequences, FiniteSets, TLC

VARIABLES
    \* divide() consumed as a generator (seller.py:268-284)
    d_lst,      \* the list argument
    d_n,        \* the chunk size argument
    d_state,    \* "created", "suspended", "done" or "ValueError"
    d_k,        \* number of values the range iterator has produced
    d_chunks,   \* chunks yielded so far, in order
    \* price_conversion() applied to one price string (seller.py:243-265)
    p_price,    \* the argument
    p_called,   \* whether the call has been made
    p_result,   \* the returned string
    \* create_stocks() / create_prices() called on a remnant list and a
    \* caller-owned offer-id list (seller.py:177-240, market.py:156-261)
    m_remnants, \* watch_remnants
    m_offer_ids,\* the caller's offer_ids list (create_stocks mutates it)
    m_call,     \* the last function called, "none" before any call
    m_in,       \* the contents of offer_ids when that call was made
    m_err,      \* the exception that call raised, "none" if it returned
    m_result,   \* the list that call returned
    \* one run of an entry point: seller.main, market.main, or an uploader
    \* coroutine awaited by a caller
    r_entry,          \* the entry point
    r_catalog,        \* environment: the offer ids each account/campaign lists
    r_feed,           \* environment: the rows of the remote spreadsheet
    r_pc,             \* the statement the run is at, or how it ended
    r_campaign,       \* the account/campaign the run is working on
    r_page,           \* get_offer_ids: last_id / page
    r_product_list,   \* get_offer_ids: product_list
    r_watch_remnants, \* watch_remnants
    r_offer_ids,      \* offer_ids
    r_stocks,         \* stocks
    r_prices,         \* prices
    r_todo,           \* chunks of the running for loop not yet iterated
    r_calls,          \* the network calls issued so far, in order
    r_coroutines,     \* coroutine objects created and never awaited
    r_exc,            \* the exception that ended the run, "none" otherwise
    r_return,         \* the value returned by the entry point
    \* get_offer_ids() called against a server that answers as it likes
    \* (seller.py:50-76, market.py:125-153)
    f_style,          \* "cursor" (seller) or "token" (market)
    f_state,          \* "running", "returned" or "raised"
    f_page,           \* last_id / page: the cursor of the next request
    f_product_list,   \* product_list
    f_total,          \* total of the last response (cursor style)
    f_requests,       \* the requests issued so far: cursor sent, cursor got
    f_served,         \* the ids of the items the server has sent, in order
    f_exc,            \* the exception the call raised, "none" otherwise
    f_result          \* the list the call returned

dvars == <<d_lst, d_n, d_state, d_k, d_chunks>>
pvars == <<p_price, p_called, p_result>>
mvars == <<m_remnants, m_offer_ids, m_call, m_in, m_err, m_result>>
rlocals == <<r_page, r_product_list, r_watch_remnants, r_offer_ids, r_stocks,
             r_prices, r_todo>>
rvars == <<r_entry, r_catalog, r_feed, r_pc, r_campaign, rlocals, r_calls,
           r_coroutines, r_exc, r_return>>
fvars == <<f_style, f_state, f_page, f_product_list, f_total, f_requests,
           f_served, f_exc, f_result>>

(***************************************************************************)
(* Bounds of the model.                                                    *)
(***************************************************************************)
MaxLen == 4         \* longest list handed to divide
MaxN == 3           \* chunk sizes range over -MaxN..MaxN
MaxPriceLen == 3    \* longest enumerated price string
MaxOffers == 3      \* longest offer-id list handed to the mappers
MaxCatalog == 2     \* longest enumerated small catalog of a run
BigN == 2500        \* size of the large catalog and of the large feed

(***************************************************************************)
(* Generic helpers.                                                        *)
(***************************************************************************)
Min(a, b) == IF a < b THEN a ELSE b

SeqsUpTo(S, k) == UNION {[1..m -> S] : m \in 0..k}

RECURSIVE Concat(_)
Concat(ss) == IF ss = <<>> THEN <<>> ELSE Head(ss) \o Concat(Tail(ss))

(***************************************************************************)
(* Python built-ins used by divide.                                        *)
(***************************************************************************)
\* range(start, stop, step): step = 0 raises ValueError; otherwise the
\* arithmetic progression from start towards stop, stop excluded.
RangeLen(start, stop, step) ==
    IF step > 0
    THEN IF start < stop THEN (stop - start + step - 1) \div step ELSE 0
    ELSE IF start > stop THEN (start - stop + (-step) - 1) \div (-step) ELSE 0

Range(start, stop, step) ==
    IF step = 0
    THEN [err |-> "ValueError", vals |-> <<>>]
    ELSE [err |-> "none",
          vals |-> [k \in 1..RangeLen(start, stop, step) |-> start + (k - 1) * step]]

\* lst[i:j] for 0 <= i (indices are 0-based in the source); an upper bound
\* below i, or beyond the end, is clamped as Python clamps it.
Slice(lst, i, j) ==
    LET hi == IF j < 0 THEN IF Len(lst) + j < 0 THEN 0 ELSE Len(lst) + j
              ELSE Min(j, Len(lst))
    IN  IF i >= hi THEN <<>> ELSE SubSeq(lst, i + 1, hi)

(***************************************************************************)
(* divide(lst, n), seller.py:268-284.                                      *)
(*     for i in range(0, len(lst), n):                                     *)
(*         yield lst[i : i + n]                                            *)
(***************************************************************************)
divide_chunk_short(lst, n, i) == Slice(lst, i, i + n - 1)

\* The chunk yielded for loop index i.
divide_chunk(lst, n, i) == Slice(lst, i, i + n)

divide_full_only(lst, n) ==
    [err |-> Range(0, Len(lst), n).err,
     chunks |-> [k \in 1..(IF n > 0 THEN Len(lst) \div n ELSE 0) |->
                    divide_chunk(lst, n, (k - 1) * n)]]

\* list(divide(lst, n)): the error raised, if any, and the chunks yielded.
divide(lst, n) ==
    LET r == Range(0, Len(lst), n)
    IN  [err |-> r.err,
         chunks |-> [k \in 1..Len(r.vals) |-> divide_chunk(lst, n, r.vals[k])]]

(***************************************************************************)
(* Strings: sequences of one-character tokens.                             *)
(***************************************************************************)
AsciiDigits == {"0", "1", "2", "3", "4", "5", "6", "7", "8", "9"}

\* str.split(sep) for a one-character separator: the parts between the
\* occurrences of sep, in order (always at least one part).
RECURSIVE Split(_, _)
Split(s, sep) ==
    IF \A i \in 1..Len(s) : s[i] # sep
    THEN <<s>>
    ELSE LET i == CHOOSE j \in 1..Len(s) :
                      /\ s[j] = sep
                      /\ \A h \in 1..(j - 1) : s[h] # sep
         IN  <<SubSeq(s, 1, i - 1)>> \o Split(SubSeq(s, i + 1, Len(s)), sep)

\* re.sub("[^0-9]", "", s): every character outside the class 0-9 removed.
IsAsciiDigit(c) == c \in AsciiDigits
ReSubNonDigits(s) == SelectSeq(s, IsAsciiDigit)

(***************************************************************************)
(* price_conversion(price), seller.py:243-265.                             *)
(*     return re.sub("[^0-9]", "", price.split(".")[0])                    *)
(***************************************************************************)
price_conversion_nosplit(price) == ReSubNonDigits(price)

price_conversion(price) == ReSubNonDigits(Split(price, ".")[1])

\* The price strings of the documentation.
Price5990 == <<"5", "'", "9", "9", "0", ".", "0", "0", " ", "cyr_r", "cyr_u", "cyr_b", ".">>
Price1234 == <<"1", "2", ".", "3", "4", "$">>
PriceAbc == <<"a", "b", "c">>
Price1999 == <<"1", ".", "9", "9", "9">>
Price1500 == <<"1", "'", "5", "0", "0", ".", "0", "0", " ", "cyr_r", "cyr_u", "cyr_b", ".">>

PriceChars == {"1", "9", ".", "a", "arab_3"}
PriceInputs ==
    SeqsUpTo(PriceChars, MaxPriceLen)
        \cup {Price5990, Price1234, PriceAbc, Price1999, Price1500}

(***************************************************************************)
(* Python values of a remnant row.  pandas yields either a string or an    *)
(* integer for a cell; t tells which, s holds the string, n the integer.   *)
(***************************************************************************)
PyStr(chars) == [t |-> "str", s |-> chars, n |-> 0]
PyInt(k) == [t |-> "int", s |-> <<>>, n |-> k]

\* None, and bool(v): None, the empty string and 0 are false.
PyNone == [t |-> "none", s |-> <<>>, n |-> 0]
Truthy(v) ==
    IF v.t = "str" THEN v.s # <<>>
    ELSE IF v.t = "int" THEN v.n # 0
    ELSE FALSE

Digits == <<"0", "1", "2", "3", "4", "5", "6", "7", "8", "9">>

\* The decimal numeral of an integer.
RECURSIVE IntToStr(_)
IntToStr(k) ==
    IF k < 0 THEN <<"-">> \o IntToStr(-k)
    ELSE IF k < 10 THEN <<Digits[k + 1]>>
    ELSE IntToStr(k \div 10) \o <<Digits[(k % 10) + 1]>>

\* The decimal digits int() reads: every character of Unicode category Nd,
\* 66 runs of ten code points from a zero digit to a nine.  The first two
\* runs are 0-9 and the ARABIC-INDIC digits; the others carry the code
\* point of the character as their token ("uff17": FULLWIDTH DIGIT SEVEN).
ArabicIndicDigits ==
    <<"arab_0", "arab_1", "arab_2", "arab_3", "arab_4",
      "arab_5", "arab_6", "arab_7", "arab_8", "arab_9">>

OtherDecimalDigitRuns ==
    <<<<"u06f0", "u06f1", "u06f2", "u06f3", "u06f4", "u06f5", "u06f6", "u06f7", "u06f8", "u06f9">>,
      <<"u07c0", "u07c1", "u07c2", "u07c3", "u07c4", "u07c5", "u07c6", "u07c7", "u07c8", "u07c9">>,
      <<"u0966", "u0967", "u0968", "u0969", "u096a", "u096b", "u096c", "u096d", "u096e", "u096f">>,
      <<"u09e6", "u09e7", "u09e8", "u09e9", "u09ea", "u09eb", "u09ec", "u09ed", "u09ee", "u09ef">>,
      <<"u0a66", "u0a67", "u0a68", "u0a69", "u0a6a", "u0a6b", "u0a6c", "u0a6d", "u0a6e", "u0a6f">>,
      <<"u0ae6", "u0ae7", "u0ae8", "u0ae9", "u0aea", "u0aeb", "u0aec", "u0aed", "u0aee", "u0aef">>,
      <<"u0b66", "u0b67", "u0b68", "u0b69", "u0b6a", "u0b6b", "u0b6c", "u0b6d", "u0b6e", "u0b6f">>,
      <<"u0be6", "u0be7", "u0be8", "u0be9", "u0bea", "u0beb", "u0bec", "u0bed", "u0bee", "u0bef">>,
      <<"u0c66", "u0c67", "u0c68", "u0c69", "u0c6a", "u0c6b", "u0c6c", "u0c6d", "u0c6e", "u0c6f">>,
      <<"u0ce6", "u0ce7", "u0ce8", "u0ce9", "u0cea", "u0ceb", "u0cec", "u0ced", "u0cee", "u0cef">>,
      <<"u0d66", "u0d67", "u0d68", "u0d69", "u0d6a", "u0d6b", "u0d6c", "u0d6d", "u0d6e", "u0d6f">>,
      <<"u0de6", "u0de7", "u0de8", "u0de9", "u0dea", "u0deb", "u0dec", "u0ded", "u0dee", "u0def">>,
      <<"u0e50", "u0e51", "u0e52", "u0e53", "u0e54", "u0e55", "u0e56", "u0e57", "u0e58", "u0e59">>,
      <<"u0ed0", "u0ed1", "u0ed2", "u0ed3", "u0ed4", "u0ed5", "u0ed6", "u0ed7", "u0ed8", "u0ed9">>,
      <<"u0f20", "u0f21", "u0f22", "u0f23", "u0f24", "u0f25", "u0f26", "u0f27", "u0f28", "u0f29">>,
      <<"u1040", "u1041", "u1042", "u1043", "u1044", "u1045", "u1046", "u1047", "u1048", "u1049">>,
      <<"u1090", "u1091", "u1092", "u1093", "u1094", "u1095", "u1096", "u1097", "u1098", "u1099">>,
      <<"u17e0", "u17e1", "u17e2", "u17e3", "u17e4", "u17e5", "u17e6", "u17e7", "u17e8", "u17e9">>,
      <<"u1810", "u1811", "u1812", "u1813", "u1814", "u1815", "u1816", "u1817", "u1818", "u1819">>,
      <<"u1946", "u1947", "u1948", "u1949", "u194a", "u194b", "u194c", "u194d", "u194e", "u194f">>,
      <<"u19d0", "u19d1", "u19d2", "u19d3", "u19d4", "u19d5", "u19d6", "u19d7", "u19d8", "u19d9">>,
      <<"u1a80", "u1a81", "u1a82", "u1a83", "u1a84", "u1a85", "u1a86", "u1a87", "u1a88", "u1a89">>,
      <<"u1a90", "u1a91", "u1a92", "u1a93", "u1a94", "u1a95", "u1a96", "u1a97", "u1a98", "u1a99">>,
      <<"u1b50", "u1b51", "u1b52", "u1b53", "u1b54", "u1b55", "u1b56", "u1b57", "u1b58", "u1b59">>,
      <<"u1bb0", "u1bb1", "u1bb2", "u1bb3", "u1bb4", "u1bb5", "u1bb6", "u1bb7", "u1bb8", "u1bb9">>,
      <<"u1c40", "u1c41", "u1c42", "u1c43", "u1c44", "u1c45", "u1c46", "u1c47", "u1c48", "u1c49">>,
      <<"u1c50", "u1c51", "u1c52", "u1c53", "u1c54", "u1c55", "u1c56", "u1c57", "u1c58", "u1c59">>,
      <<"ua620", "ua621", "ua622", "ua623", "ua624", "ua625", "ua626", "ua627", "ua628", "ua629">>,
      <<"ua8d0", "ua8d1", "ua8d2", "ua8d3", "ua8d4", "ua8d5", "ua8d6", "ua8d7", "ua8d8", "ua8d9">>,
      <<"ua900", "ua901", "ua902", "ua903", "ua904", "ua905", "ua906", "ua907", "ua908", "ua909">>,
      <<"ua9d0", "ua9d1", "ua9d2", "ua9d3", "ua9d4", "ua9d5", "ua9d6", "ua9d7", "ua9d8", "ua9d9">>,
      <<"ua9f0", "ua9f1", "ua9f2", "ua9f3", "ua9f4", "ua9f5", "ua9f6", "ua9f7", "ua9f8", "ua9f9">>,
      <<"uaa50", "uaa51", "uaa52", "uaa53", "uaa54", "uaa55", "uaa56", "uaa57", "uaa58", "uaa59">>,
      <<"uabf0", "uabf1", "uabf2", "uabf3", "uabf4", "uabf5", "uabf6", "uabf7", "uabf8", "uabf9">>,
      <<"uff10", "uff11", "uff12", "uff13", "uff14", "uff15", "uff16", "uff17", "uff18", "uff19">>,
      <<"u104a0", "u104a1", "u104a2", "u104a3", "u104a4", "u104a5", "u104a6", "u104a7", "u104a8", "u104a9">>,
      <<"u10d30", "u10d31", "u10d32", "u10d33", "u10d34", "u10d35", "u10d36", "u10d37", "u10d38", "u10d39">>,
      <<"u11066", "u11067", "u11068", "u11069", "u1106a", "u1106b", "u1106c", "u1106d", "u1106e", "u1106f">>,
      <<"u110f0", "u110f1", "u110f2", "u110f3", "u110f4", "u110f5", "u110f6", "u110f7", "u110f8", "u110f9">>,
      <<"u11136", "u11137", "u11138", "u11139", "u1113a", "u1113b", "u1113c", "u1113d", "u1113e", "u1113f">>,
      <<"u111d0", "u111d1", "u111d2", "u111d3", "u111d4", "u111d5", "u111d6", "u111d7", "u111d8", "u111d9">>,
      <<"u112f0", "u112f1", "u112f2", "u112f3", "u112f4", "u112f5", "u112f6", "u112f7", "u112f8", "u112f9">>,
      <<"u11450", "u11451", "u11452", "u11453", "u11454", "u11455", "u11456", "u11457", "u11458", "u11459">>,
      <<"u114d0", "u114d1", "u114d2", "u114d3", "u114d4", "u114d5", "u114d6", "u114d7", "u114d8", "u114d9">>,
      <<"u11650", "u11651", "u11652", "u11653", "u11654", "u11655", "u11656", "u11657", "u11658", "u11659">>,
      <<"u116c0", "u116c1", "u116c2", "u116c3", "u116c4", "u116c5", "u116c6", "u116c7", "u116c8", "u116c9">>,
      <<"u11730", "u11731", "u11732", "u11733", "u11734", "u11735", "u11736", "u11737", "u11738", "u11739">>,
      <<"u118e0", "u118e1", "u118e2", "u118e3", "u118e4", "u118e5", "u118e6", "u118e7", "u118e8", "u118e9">>,
      <<"u11950", "u11951", "u11952", "u11953", "u11954", "u11955", "u11956", "u11957", "u11958", "u11959">>,
      <<"u11c50", "u11c51", "u11c52", "u11c53", "u11c54", "u11c55", "u11c56", "u11c57", "u11c58", "u11c59">>,
      <<"u11d50", "u11d51", "u11d52", "u11d53", "u11d54", "u11d55", "u11d56", "u11d57", "u11d58", "u11d59">>,
      <<"u11da0", "u11da1", "u11da2", "u11da3", "u11da4", "u11da5", "u11da6", "u11da7", "u11da8", "u11da9">>,
      <<"u16a60", "u16a61", "u16a62", "u16a63", "u16a64", "u16a65", "u16a66", "u16a67", "u16a68", "u16a69">>,
      <<"u16ac0", "u16ac1", "u16ac2", "u16ac3", "u16ac4", "u16ac5", "u16ac6", "u16ac7", "u16ac8", "u16ac9">>,
      <<"u16b50", "u16b51", "u16b52", "u16b53", "u16b54", "u16b55", "u16b56", "u16b57", "u16b58", "u16b59">>,
      <<"u1d7ce", "u1d7cf", "u1d7d0", "u1d7d1", "u1d7d2", "u1d7d3", "u1d7d4", "u1d7d5", "u1d7d6", "u1d7d7">>,
      <<"u1d7d8", "u1d7d9", "u1d7da", "u1d7db", "u1d7dc", "u1d7dd", "u1d7de", "u1d7df", "u1d7e0", "u1d7e1">>,
      <<"u1d7e2", "u1d7e3", "u1d7e4", "u1d7e5", "u1d7e6", "u1d7e7", "u1d7e8", "u1d7e9", "u1d7ea", "u1d7eb">>,
      <<"u1d7ec", "u1d7ed", "u1d7ee", "u1d7ef", "u1d7f0", "u1d7f1", "u1d7f2", "u1d7f3", "u1d7f4", "u1d7f5">>,
      <<"u1d7f6", "u1d7f7", "u1d7f8", "u1d7f9", "u1d7fa", "u1d7fb", "u1d7fc", "u1d7fd", "u1d7fe", "u1d7ff">>,
      <<"u1e140", "u1e141", "u1e142", "u1e143", "u1e144", "u1e145", "u1e146", "u1e147", "u1e148", "u1e149">>,
      <<"u1e2f0", "u1e2f1", "u1e2f2", "u1e2f3", "u1e2f4", "u1e2f5", "u1e2f6", "u1e2f7", "u1e2f8", "u1e2f9">>,
      <<"u1e950", "u1e951", "u1e952", "u1e953", "u1e954", "u1e955", "u1e956", "u1e957", "u1e958", "u1e959">>,
      <<"u1fbf0", "u1fbf1", "u1fbf2", "u1fbf3", "u1fbf4", "u1fbf5", "u1fbf6", "u1fbf7", "u1fbf8", "u1fbf9">>>>

DecimalDigitRuns == <<Digits, ArabicIndicDigits>> \o OtherDecimalDigitRuns

DecimalDigits ==
    {DecimalDigitRuns[r][k] : r \in 1..Len(DecimalDigitRuns), k \in 1..10}

\* The whitespace int() skips around a numeral: the characters 9 to 13,
\* the blank, NEXT LINE, NO-BREAK SPACE and the Unicode space, line and
\* paragraph separators.  The separators U+001C to U+001F are not skipped.
Whitespace ==
    {"tab", "lf", "vt", "ff", "cr", " ", "u0085", "nbsp", "u1680",
     "u2000", "u2001", "u2002", "u2003", "u2004", "u2005", "u2006",
     "u2007", "u2008", "u2009", "u200a", "u2028", "u2029", "u202f",
     "u205f", "u3000"}

IsDecimalDigit(c) == c \in DecimalDigits

\* The value of each decimal digit: its place in its run.
DigitValueOf ==
    [c \in DecimalDigits |->
        CHOOSE d \in 0..9 :
            \E r \in 1..Len(DecimalDigitRuns) : DecimalDigitRuns[r][d + 1] = c]

DigitValue(c) == DigitValueOf[c]

RECURSIVE DigitsValue(_)
DigitsValue(s) ==
    IF s = <<>> THEN 0
    ELSE 10 * DigitsValue(SubSeq(s, 1, Len(s) - 1)) + DigitValue(s[Len(s)])

\* The whitespace int() skips at both ends of its argument.
RECURSIVE Strip(_)
Strip(s) ==
    IF s # <<>> /\ s[1] \in Whitespace THEN Strip(Tail(s))
    ELSE IF s # <<>> /\ s[Len(s)] \in Whitespace THEN Strip(SubSeq(s, 1, Len(s) - 1))
    ELSE s

\* int(<str>): surrounding whitespace is skipped; then an optional sign and
\* one or more decimal digits, where single underscores may stand between
\* digits; anything else raises ValueError.
IntSign(t) == IF t # <<>> /\ t[1] = "-" THEN 0 - 1 ELSE 1

IntBody(t) == IF t # <<>> /\ t[1] \in {"+", "-"} THEN Tail(t) ELSE t

\* int() refuses a numeral of more digits than this (the interpreter's
\* limit on integer string conversion); underscores are not counted.
IntMaxStrDigits == 4300

IntWellFormed(body) ==
    /\ body # <<>>
    /\ \A i \in 1..Len(body) : IsDecimalDigit(body[i]) \/ body[i] = "_"
    /\ body[1] # "_"
    /\ body[Len(body)] # "_"
    /\ \A i \in 1..(Len(body) - 1) : ~(body[i] = "_" /\ body[i + 1] = "_")
    /\ Len(SelectSeq(body, IsDecimalDigit)) <= IntMaxStrDigits

ParseIntBody(sign, body) ==
    IF IntWellFormed(body)
    THEN [err |-> "none", value |-> sign * DigitsValue(SelectSeq(body, IsDecimalDigit))]
    ELSE [err |-> "ValueError", value |-> 0]

ParseInt(s) == ParseIntBody(IntSign(Strip(s)), IntBody(Strip(s)))

\* str(v) and int(v) of a cell value v.
PyStrOf(v) == IF v.t = "str" THEN v.s ELSE IntToStr(v.n)
PyIntOf(v) == IF v.t = "int" THEN [err |-> "none", value |-> v.n] ELSE ParseInt(v.s)

\* x in lst (also as membership in the set of the elements of lst), and
\* lst.remove(x) (the first occurrence goes).
Elems(lst) == {lst[i] : i \in 1..Len(lst)}

ListIn(x, lst) == \E i \in 1..Len(lst) : lst[i] = x

ListRemove_keep(lst, x) == lst

ListRemove(lst, x) ==
    LET i == CHOOSE j \in 1..Len(lst) :
                 /\ lst[j] = x
                 /\ \A h \in 1..(j - 1) : lst[h] # x
    IN  SubSeq(lst, 1, i - 1) \o SubSeq(lst, i + 1, Len(lst))

\* A remnant row: the cells the scripts read ("Код", "Количество", "Цена").
Row(code, qty, price) == [code |-> code, qty |-> qty, price |-> price]

(***************************************************************************)
(* seller.create_stocks(watch_remnants, offer_ids), seller.py:177-209.     *)
(* The loop state is the exception raised so far (if any), the stocks      *)
(* list and the offer_ids list, which the loop mutates.                    *)
(***************************************************************************)
seller_stock_count_plain(watch) ==
    LET count == PyStrOf(watch.qty)
    IN  IF count = <<">", "1", "0">> THEN [err |-> "none", stock |-> 100]
        ELSE LET r == PyIntOf(watch.qty) IN [err |-> r.err, stock |-> r.value]

\* Lines 197-203: the count of a matched remnant.
seller_stock_count(watch) ==
    LET count == PyStrOf(watch.qty)
    IN  IF count = <<">", "1", "0">> THEN [err |-> "none", stock |-> 100]
        ELSE IF count = <<"1">> THEN [err |-> "none", stock |-> 0]
        ELSE LET r == PyIntOf(watch.qty) IN [err |-> r.err, stock |-> r.value]

\* Lines 196-205: one iteration of the loop over watch_remnants.
seller_create_stocks_body(st, watch) ==
    IF st.err # "none" THEN st
    ELSE IF ~ListIn(PyStrOf(watch.code), st.offer_ids) THEN st
    ELSE LET c == seller_stock_count(watch)
         IN  IF c.err # "none" THEN [st EXCEPT !.err = c.err]
             ELSE [err |-> "none",
                   stocks |-> Append(st.stocks,
                                [offer_id |-> PyStrOf(watch.code), stock |-> c.stock]),
                   offer_ids |-> ListRemove(st.offer_ids, PyStrOf(watch.code))]

\* Line 195: the iterations for watch_remnants[lo..hi], in order; an
\* exception ends the loop.
RECURSIVE seller_create_stocks_loop(_, _, _, _)
seller_create_stocks_loop(watch_remnants, lo, hi, st) ==
    IF lo > hi THEN st
    ELSE IF lo = hi THEN seller_create_stocks_body(st, watch_remnants[lo])
    ELSE LET mid == (lo + hi) \div 2
             first == seller_create_stocks_loop(watch_remnants, lo, mid, st)
         IN  IF first.err # "none" THEN first
             ELSE seller_create_stocks_loop(watch_remnants, mid + 1, hi, first)

\* Lines 207-208: a zero record for every id left in offer_ids.
seller_zero_fill(offer_ids) ==
    [i \in 1..Len(offer_ids) |-> [offer_id |-> offer_ids[i], stock |-> 0]]

seller_create_stocks_fill_first(watch_remnants, offer_ids) ==
    LET st == seller_create_stocks_loop(watch_remnants, 1, Len(watch_remnants),
                  [err |-> "none", stocks |-> <<>>, offer_ids |-> offer_ids])
    IN  IF st.err # "none"
        THEN [err |-> st.err, stocks |-> <<>>, offer_ids |-> st.offer_ids]
        ELSE [err |-> "none",
              stocks |-> seller_zero_fill(st.offer_ids) \o st.stocks,
              offer_ids |-> st.offer_ids]

\* The call: err is the exception raised ("none": it returned stocks);
\* offer_ids is the caller's list as the call leaves it.
seller_create_stocks(watch_remnants, offer_ids) ==
    LET st == seller_create_stocks_loop(watch_remnants, 1, Len(watch_remnants),
                  [err |-> "none", stocks |-> <<>>, offer_ids |-> offer_ids])
    IN  IF st.err # "none"
        THEN [err |-> st.err, stocks |-> <<>>, offer_ids |-> st.offer_ids]
        ELSE [err |-> "none",
              stocks |-> st.stocks \o seller_zero_fill(st.offer_ids),
              offer_ids |-> st.offer_ids]

(***************************************************************************)
(* seller.create_prices(watch_remnants, offer_ids), seller.py:212-240.     *)
(***************************************************************************)
seller_price_record(watch) ==
    [auto_action_enabled |-> "UNKNOWN",
     currency_code |-> "RUB",
     offer_id |-> PyStrOf(watch.code),
     old_price |-> "0",
     price |-> price_conversion(watch.price)]

seller_create_prices_all(watch_remnants, offer_ids) ==
    [i \in 1..Len(watch_remnants) |-> seller_price_record(watch_remnants[i])]

seller_create_prices(watch_remnants, offer_ids) ==
    LET ids == Elems(offer_ids)
        matched == SelectSeq(watch_remnants, LAMBDA watch : PyStrOf(watch.code) \in ids)
    IN  [i \in 1..Len(matched) |-> seller_price_record(matched[i])]

(***************************************************************************)
(* market.create_stocks(watch_remnants, offer_ids, warehouse_id),          *)
(* market.py:156-217.  date is the value of utcnow() read at line 178.     *)
(***************************************************************************)
market_stock_record(sku, warehouse_id, count, date) ==
    [sku |-> sku,
     warehouseId |-> warehouse_id,
     items |-> <<[count |-> count, type |-> "FIT", updatedAt |-> date]>>]

\* Lines 181-187: the count of a matched remnant.
market_stock_count(watch) ==
    LET count == PyStrOf(watch.qty)
    IN  IF count = <<">", "1", "0">> THEN [err |-> "none", stock |-> 100]
        ELSE IF count = <<"1">> THEN [err |-> "none", stock |-> 0]
        ELSE LET r == PyIntOf(watch.qty) IN [err |-> r.err, stock |-> r.value]

\* Lines 180-201: one iteration of the loop over watch_remnants.
market_create_stocks_body(st, watch, warehouse_id, date) ==
    IF st.err # "none" THEN st
    ELSE IF ~ListIn(PyStrOf(watch.code), st.offer_ids) THEN st
    ELSE LET c == market_stock_count(watch)
         IN  IF c.err # "none" THEN [st EXCEPT !.err = c.err]
             ELSE [err |-> "none",
                   stocks |-> Append(st.stocks,
                                market_stock_record(PyStrOf(watch.code), warehouse_id,
                                                    c.stock, date)),
                   offer_ids |-> ListRemove(st.offer_ids, PyStrOf(watch.code))]

\* Line 179: the iterations for watch_remnants[lo..hi], in order; an
\* exception ends the loop.
RECURSIVE market_create_stocks_loop(_, _, _, _, _, _)
market_create_stocks_loop(watch_remnants, lo, hi, st, warehouse_id, date) ==
    IF lo > hi THEN st
    ELSE IF lo = hi
    THEN market_create_stocks_body(st, watch_remnants[lo], warehouse_id, date)
    ELSE LET mid == (lo + hi) \div 2
             first == market_create_stocks_loop(watch_remnants, lo, mid, st,
                                                warehouse_id, date)
         IN  IF first.err # "none" THEN first
             ELSE market_create_stocks_loop(watch_remnants, mid + 1, hi, first,
                                            warehouse_id, date)

\* Lines 203-216: a zero record for every id left in offer_ids.
market_zero_fill(offer_ids, warehouse_id, date) ==
    [i \in 1..Len(offer_ids) |->
        market_stock_record(offer_ids[i], warehouse_id, 0, date)]

market_create_stocks(watch_remnants, offer_ids, warehouse_id, date) ==
    LET st == market_create_stocks_loop(watch_remnants, 1, Len(watch_remnants),
                  [err |-> "none", stocks |-> <<>>, offer_ids |-> offer_ids],
                  warehouse_id, date)
    IN  IF st.err # "none"
        THEN [err |-> st.err, stocks |-> <<>>, offer_ids |-> st.offer_ids]
        ELSE [err |-> "none",
              stocks |-> st.stocks \o market_zero_fill(st.offer_ids, warehouse_id, date),
              offer_ids |-> st.offer_ids]

(***************************************************************************)
(* market.create_prices(watch_remnants, offer_ids), market.py:220-261.     *)
(* int(price_conversion(...)) raises ValueError when no digit is left.     *)
(***************************************************************************)
market_price_value(watch) == PyIntOf(PyStr(price_conversion(watch.price)))

market_price_record(watch) ==
    [id |-> PyStrOf(watch.code),
     price |-> [value |-> market_price_value(watch).value, currencyId |-> "RUR"]]

market_create_prices(watch_remnants, offer_ids) ==
    LET ids == Elems(offer_ids)
        matched == SelectSeq(watch_remnants, LAMBDA watch : PyStrOf(watch.code) \in ids)
    IN  IF \E i \in 1..Len(matched) : market_price_value(matched[i]).err # "none"
        THEN [err |-> "ValueError", prices |-> <<>>]
        ELSE [err |-> "none",
              prices |-> [i \in 1..Len(matched) |-> market_price_record(matched[i])]]

(***************************************************************************)
(* Inputs of the mapping specification.                                    *)
(***************************************************************************)
IdA == <<"A">>
IdB == <<"B">>
Id7 == <<"7">>
MapIds == {IdA, IdB, Id7}

\* Codes as the feed holds them: the string "A" and the integer 7.
MapCodes == {PyStr(IdA), PyInt(7)}

Qty_gt10 == PyStr(<<">", "1", "0">>)
Qty_1 == PyStr(<<"1">>)
Qty_7 == PyStr(<<"7">>)
Qty_5 == PyStr(<<"5">>)
Qty_10 == PyStr(<<"1", "0">>)
Qty_pad7 == PyStr(<<" ", "7">>)
Qty_neg3 == PyStr(<<"-", "3">>)
Qty_abc == PyStr(<<"a", "b", "c">>)
Qty_empty == PyStr(<<>>)
Qty_gt1 == PyStr(<<">", "1">>)
Qty_tab7 == PyStr(<<"tab", "7">>)
Qty_7lf == PyStr(<<"7", "lf">>)
Qty_nbsp7 == PyStr(<<"nbsp", "7">>)
Qty_arab3 == PyStr(<<"arab_3">>)
Qty_1_0 == PyStr(<<"1", "_", "0">>)
Qty_pad1 == PyStr(<<" ", "1">>)
Qty_1_ == PyStr(<<"1", "_">>)
Qty_minus_pad3 == PyStr(<<"-", " ", "3">>)
Qty_em7 == PyStr(<<"u2003", "7">>)
Qty_7nel == PyStr(<<"7", "u0085">>)
Qty_full7 == PyStr(<<"uff17">>)
Qty_1ext3 == PyStr(<<"1", "u06f3">>)
Qty_fs7 == PyStr(<<"u001c", "7">>)
Quantities ==
    {Qty_gt10, Qty_1, Qty_7, Qty_5, Qty_10, Qty_pad7, Qty_neg3,
     Qty_abc, Qty_empty, Qty_gt1, PyInt(1), PyInt(7),
     Qty_tab7, Qty_7lf, Qty_nbsp7, Qty_arab3, Qty_1_0, Qty_pad1,
     Qty_1_, Qty_minus_pad3,
     Qty_em7, Qty_7nel, Qty_full7, Qty_1ext3, Qty_fs7}

MapPrices == {Price1500, PriceAbc, Price1234}

\* Rows vary the quantity under one price, and the price under one quantity.
MapRows ==
    {Row(c, q, Price1500) : c \in MapCodes, q \in Quantities}
        \cup {Row(c, Qty_5, p) : c \in MapCodes, p \in MapPrices}

\* The rows a second feed line is drawn from.
PairRows ==
    {Row(c, q, Price1500) : c \in MapCodes, q \in {Qty_1, Qty_abc}}
        \cup {Row(c, Qty_5, PriceAbc) : c \in MapCodes}

MapFeeds ==
    {<<>>} \cup {<<r>> : r \in MapRows}
           \cup {<<r1, r2>> : r1 \in MapRows, r2 \in PairRows}

Dates == {"2025-01-18T00:00:00Z", "2025-01-18T00:00:01Z"}

(***************************************************************************)
(* The runs: entry points, their statement order and their constants.      *)
(***************************************************************************)
Mains == {"seller.main", "market.main"}
SellerEntries == {"seller.main", "seller.upload_prices", "seller.upload_stocks"}
MarketEntries == {"market.main", "market.upload_prices", "market.upload_stocks"}
Entries == SellerEntries \cup MarketEntries

\* limit of a product-list page (seller.py:42, market.py:44).
SellerPageLimit == 1000
MarketPageLimit == 200

\* Chunk sizes of the upload loops.
SellerStockChunk == 100
SellerMainPriceChunk == 900
SellerUploadPriceChunk == 1000
MarketStockChunk == 2000
MarketPriceChunk == 500

StockChunkSize(entry) ==
    IF entry \in SellerEntries THEN SellerStockChunk ELSE MarketStockChunk

PriceChunkSize(entry) ==
    IF entry = "seller.main" THEN SellerMainPriceChunk
    ELSE IF entry = "seller.upload_prices" THEN SellerUploadPriceChunk
    ELSE MarketPriceChunk

\* The accounts/campaigns an entry point works on, in order.
CampaignsOf(entry) ==
    IF entry \in SellerEntries THEN <<"CLIENT_ID">>
    ELSE IF entry = "market.main" THEN <<"FBS_ID", "DBS_ID">>
    ELSE <<"FBS_ID">>

WarehouseOf(campaign) ==
    IF campaign = "DBS_ID" THEN "WAREHOUSE_DBS_ID" ELSE "WAREHOUSE_FBS_ID"

\* The first statement, and the statement that follows each phase.
FirstPc(entry) == IF entry = "market.main" THEN "download_stock" ELSE "get_offer_ids"

AfterFetch(entry) ==
    IF entry = "seller.main" THEN "download_stock"
    ELSE IF entry \in {"seller.upload_prices", "market.upload_prices"} THEN "create_prices"
    ELSE "create_stocks"

AfterDownload(entry) ==
    IF entry = "seller.main" THEN "create_stocks" ELSE "get_offer_ids"

AfterStocks(entry) ==
    IF entry = "seller.main" THEN "create_prices"
    ELSE IF entry = "market.main" THEN "upload_prices"
    ELSE "done"

\* A for loop over chunks: its body runs while chunks are left.
LoopPc(todo, body, after) == IF todo # <<>> THEN body ELSE after

\* Exceptions a network call raises (requests.exceptions), and where an
\* exception raised at statement pc ends the run: the try of seller.main
\* (lines 348-364) covers every statement, the try of market.main (lines
\* 334-357) every statement but download_stock (line 333); the uploaders
\* have no handler.
NetworkErrors == {"ReadTimeout", "ConnectionError", "HTTPError"}
Outcomes == {"ok"} \cup NetworkErrors

Handler(entry, pc, exc) ==
    IF entry = "seller.main" \/ (entry = "market.main" /\ pc # "download_stock")
    THEN IF exc = "ReadTimeout" THEN "caught_ReadTimeout"
         ELSE IF exc = "ConnectionError" THEN "caught_ConnectionError"
         ELSE "caught_Exception"
    ELSE "uncaught"

Call(fn, campaign, payload, outcome) ==
    [fn |-> fn, campaign |-> campaign, payload |-> payload, outcome |-> outcome]

(***************************************************************************)
(* The marketplaces as the fetchers see them: a server that pages through  *)
(* the catalog of the account, the cursor being the decimal offset.        *)
(***************************************************************************)
CursorOffset(cursor) == IF cursor = <<>> THEN 0 ELSE ParseInt(cursor).value

\* Response of POST /v2/product/list (seller.get_product_list).
SellerServerPage(catalog, last_id) ==
    LET offset == CursorOffset(last_id)
        ids == Slice(catalog, offset, offset + SellerPageLimit)
    IN  [items |-> [i \in 1..Len(ids) |-> [offer_id |-> ids[i]]],
         total |-> Len(catalog),
         last_id |-> IntToStr(offset + Len(ids))]

\* Response of GET offer-mapping-entries (market.get_product_list); an
\* absent nextPageToken is the empty token.
MarketServerPage(catalog, page) ==
    LET offset == CursorOffset(page)
        ids == Slice(catalog, offset, offset + MarketPageLimit)
    IN  [offerMappingEntries |-> [i \in 1..Len(ids) |-> [offer |-> [shopSku |-> ids[i]]]],
         paging |-> [nextPageToken |->
                        IF offset + Len(ids) < Len(catalog)
                        THEN IntToStr(offset + Len(ids)) ELSE <<>>]]

(***************************************************************************)
(* Inputs of the runs.                                                     *)
(***************************************************************************)
IdX == <<"X">>
IdY == <<"Y">>
RowX == Row(PyStr(IdX), Qty_5, Price1500)
RowXbad == Row(PyStr(IdX), Qty_abc, Price1500)
RowY == Row(PyStr(IdY), Qty_gt10, Price5990)
RunRows == {RowX, RowXbad, RowY}

SmallCatalogs == SeqsUpTo({IdX, IdY}, MaxCatalog)
SmallFeeds ==
    {<<>>} \cup {<<r>> : r \in RunRows}
           \cup {<<r1, r2>> : r1 \in RunRows, r2 \in RunRows}

\* A large account: ids "1".."BigN", and a feed with a row for each.
BigCatalog == [i \in 1..BigN |-> IntToStr(i)]
BigFeed == [i \in 1..BigN |-> Row(PyInt(i), Qty_5, Price1500)]

CampaignSet(entry) == {CampaignsOf(entry)[i] : i \in 1..Len(CampaignsOf(entry))}

(***************************************************************************)
(* Idle values: each specification drives one group of variables and keeps *)
(* the others at these values.                                             *)
(***************************************************************************)
DivideIdle ==
    /\ d_lst = <<>>
    /\ d_n = 1
    /\ d_state = "idle"
    /\ d_k = 0
    /\ d_chunks = <<>>

PriceIdle ==
    /\ p_price = <<>>
    /\ p_called = FALSE
    /\ p_result = <<>>

MapIdle ==
    /\ m_remnants = <<>>
    /\ m_offer_ids = <<>>
    /\ m_call = "idle"
    /\ m_in = <<>>
    /\ m_err = "none"
    /\ m_result = <<>>

RunIdle ==
    /\ r_entry = "idle"
    /\ r_catalog = <<>>
    /\ r_feed = <<>>
    /\ r_pc = "idle"
    /\ r_campaign = "none"
    /\ r_page = <<>>
    /\ r_product_list = <<>>
    /\ r_watch_remnants = <<>>
    /\ r_offer_ids = <<>>
    /\ r_stocks = <<>>
    /\ r_prices = <<>>
    /\ r_todo = <<>>
    /\ r_calls = <<>>
    /\ r_coroutines = 0
    /\ r_exc = "none"
    /\ r_return = <<>>

FetchIdle ==
    /\ f_style = "idle"
    /\ f_state = "idle"
    /\ f_page = PyStr(<<>>)
    /\ f_product_list = <<>>
    /\ f_total = 0
    /\ f_requests = <<>>
    /\ f_served = <<>>
    /\ f_exc = "none"
    /\ f_result = <<>>

vars == <<dvars, pvars, mvars, rvars, fvars>>

(***************************************************************************)
(* SpecDivide: a caller consumes the generator divide(d_lst, d_n) one      *)
(* next() at a time.                                                       *)
(***************************************************************************)
DivideInit ==
    /\ d_lst \in SeqsUpTo(1..2, MaxLen)
    /\ d_n \in (-MaxN)..MaxN
    /\ d_state = "created"
    /\ d_k = 0
    /\ d_chunks = <<>>
    /\ PriceIdle
    /\ MapIdle
    /\ RunIdle
    /\ FetchIdle

DivideLive == d_state \in {"created", "suspended"}

\* next(): range() raises because the step is zero (first next() only:
\* the body has not run before).
DivideRaise ==
    /\ d_state = "created"
    /\ Range(0, Len(d_lst), d_n).err # "none"
    /\ d_state' = Range(0, Len(d_lst), d_n).err
    /\ UNCHANGED <<d_lst, d_n, d_k, d_chunks>>
    /\ UNCHANGED <<pvars, mvars, rvars, fvars>>

\* next(): the range iterator has another index, the body yields a chunk.
DivideYield ==
    /\ DivideLive
    /\ Range(0, Len(d_lst), d_n).err = "none"
    /\ d_k < Len(Range(0, Len(d_lst), d_n).vals)
    /\ d_chunks' = Append(d_chunks,
                     divide_chunk(d_lst, d_n, Range(0, Len(d_lst), d_n).vals[d_k + 1]))
    /\ d_k' = d_k + 1
    /\ d_state' = "suspended"
    /\ UNCHANGED <<d_lst, d_n>>
    /\ UNCHANGED <<pvars, mvars, rvars, fvars>>

\* next(): the range iterator is exhausted, the generator returns.
DivideReturn ==
    /\ DivideLive
    /\ Range(0, Len(d_lst), d_n).err = "none"
    /\ d_k = Len(Range(0, Len(d_lst), d_n).vals)
    /\ d_state' = "done"
    /\ UNCHANGED <<d_lst, d_n, d_k, d_chunks>>
    /\ UNCHANGED <<pvars, mvars, rvars, fvars>>

DivideNext == DivideRaise \/ DivideYield \/ DivideReturn

SpecDivide == DivideInit /\ [][DivideNext]_vars

(***************************************************************************)
(* SpecPrice: price_conversion is applied to one price string.             *)
(***************************************************************************)
PriceInit ==
    /\ p_price \in PriceInputs
    /\ p_called = FALSE
    /\ p_result = <<>>
    /\ DivideIdle
    /\ MapIdle
    /\ RunIdle
    /\ FetchIdle

PriceCall ==
    /\ ~p_called
    /\ p_called' = TRUE
    /\ p_result' = price_conversion(p_price)
    /\ UNCHANGED <<p_price>>
    /\ UNCHANGED <<dvars, mvars, rvars, fvars>>

PriceNext == PriceCall

SpecPrice == PriceInit /\ [][PriceNext]_vars

(***************************************************************************)
(* SpecMap: a caller holding a remnant list and an offer-id list calls a   *)
(* stock mapper, a price mapper, or a stock mapper and then the price      *)
(* mapper of the same marketplace on the same list object.                 *)
(***************************************************************************)
MapInit ==
    /\ m_remnants \in MapFeeds
    /\ m_offer_ids \in SeqsUpTo(MapIds, MaxOffers)
    /\ m_call = "none"
    /\ m_in = <<>>
    /\ m_err = "none"
    /\ m_result = <<>>
    /\ DivideIdle
    /\ PriceIdle
    /\ RunIdle
    /\ FetchIdle

SellerCreateStocks ==
    /\ m_call = "none"
    /\ LET r == seller_create_stocks(m_remnants, m_offer_ids)
       IN  /\ m_err' = r.err
           /\ m_result' = r.stocks
           /\ m_offer_ids' = r.offer_ids
    /\ m_call' = "seller.create_stocks"
    /\ m_in' = m_offer_ids
    /\ UNCHANGED <<m_remnants>>
    /\ UNCHANGED <<dvars, pvars, rvars, fvars>>

MarketCreateStocks ==
    /\ m_call = "none"
    /\ \E date \in Dates :
         LET r == market_create_stocks(m_remnants, m_offer_ids, "WAREHOUSE_FBS_ID", date)
         IN  /\ m_err' = r.err
             /\ m_result' = r.stocks
             /\ m_offer_ids' = r.offer_ids
    /\ m_call' = "market.create_stocks"
    /\ m_in' = m_offer_ids
    /\ UNCHANGED <<m_remnants>>
    /\ UNCHANGED <<dvars, pvars, rvars, fvars>>

SellerCreatePrices ==
    /\ m_call \in {"none", "seller.create_stocks"}
    /\ m_err = "none"
    /\ m_result' = seller_create_prices(m_remnants, m_offer_ids)
    /\ m_err' = "none"
    /\ m_call' = "seller.create_prices"
    /\ m_in' = m_offer_ids
    /\ UNCHANGED <<m_remnants, m_offer_ids>>
    /\ UNCHANGED <<dvars, pvars, rvars, fvars>>

MarketCreatePrices ==
    /\ m_call \in {"none", "market.create_stocks"}
    /\ m_err = "none"
    /\ LET r == market_create_prices(m_remnants, m_offer_ids)
       IN  /\ m_err' = r.err
           /\ m_result' = r.prices
    /\ m_call' = "market.create_prices"
    /\ m_in' = m_offer_ids
    /\ UNCHANGED <<m_remnants, m_offer_ids>>
    /\ UNCHANGED <<dvars, pvars, rvars, fvars>>

MapNext ==
    \/ SellerCreateStocks
    \/ MarketCreateStocks
    \/ SellerCreatePrices
    \/ MarketCreatePrices

SpecMap == MapInit /\ [][MapNext]_vars

(***************************************************************************)
(* Spec: one run of an entry point against a marketplace and a feed.       *)
(* Every network call either returns or raises one of NetworkErrors.       *)
(***************************************************************************)
RunInit ==
    /\ r_entry \in Entries
    /\ \/ /\ r_catalog \in [CampaignSet(r_entry) -> SmallCatalogs]
          /\ r_feed \in SmallFeeds
       \/ /\ r_catalog = [c \in CampaignSet(r_entry) |-> BigCatalog]
          /\ r_feed = BigFeed
    /\ r_pc = FirstPc(r_entry)
    /\ r_campaign = CampaignsOf(r_entry)[1]
    /\ r_page = <<>>
    /\ r_product_list = <<>>
    \* the uploaders receive watch_remnants as an argument
    /\ r_watch_remnants = IF r_entry \in Mains THEN <<>> ELSE r_feed
    /\ r_offer_ids = <<>>
    /\ r_stocks = <<>>
    /\ r_prices = <<>>
    /\ r_todo = <<>>
    /\ r_calls = <<>>
    /\ r_coroutines = 0
    /\ r_exc = "none"
    /\ r_return = <<>>
    /\ DivideIdle
    /\ PriceIdle
    /\ MapIdle
    /\ FetchIdle

Init == RunInit

\* The statement at r_pc raises exc, after issuing the call if it is one.
RunRaise(calls, exc) ==
    /\ r_calls' = calls
    /\ r_pc' = Handler(r_entry, r_pc, exc)
    /\ r_exc' = exc
    /\ UNCHANGED <<r_entry, r_catalog, r_feed, r_campaign, rlocals,
                   r_coroutines, r_return>>

\* seller.get_offer_ids, lines 66-76: one pass of the while loop; the
\* break runs the loop of lines 73-75 and returns.
SellerGetProductList ==
    /\ r_entry \in SellerEntries
    /\ r_pc = "get_offer_ids"
    /\ \E outcome \in Outcomes :
         LET calls == Append(r_calls,
                         Call("get_product_list", r_campaign, r_page, outcome))
             some_prod == SellerServerPage(r_catalog[r_campaign], r_page)
             product_list == r_product_list \o some_prod.items
         IN  IF outcome # "ok"
             THEN RunRaise(calls, outcome)
             ELSE /\ r_calls' = calls
                  /\ r_product_list' = product_list
                  /\ r_page' = some_prod.last_id
                  /\ IF some_prod.total = Len(product_list)
                     THEN /\ r_offer_ids' =
                                [i \in 1..Len(product_list) |-> product_list[i].offer_id]
                          /\ r_pc' = AfterFetch(r_entry)
                     ELSE UNCHANGED <<r_offer_ids, r_pc>>
                  /\ UNCHANGED <<r_entry, r_catalog, r_feed, r_campaign,
                                 r_watch_remnants, r_stocks, r_prices, r_todo,
                                 r_coroutines, r_exc, r_return>>
    /\ UNCHANGED <<dvars, pvars, mvars, fvars>>

\* market.get_offer_ids, lines 144-153.
MarketGetProductList ==
    /\ r_entry \in MarketEntries
    /\ r_pc = "get_offer_ids"
    /\ \E outcome \in Outcomes :
         LET calls == Append(r_calls,
                         Call("get_product_list", r_campaign, r_page, outcome))
             some_prod == MarketServerPage(r_catalog[r_campaign], r_page)
             product_list == r_product_list \o some_prod.offerMappingEntries
             page == some_prod.paging.nextPageToken
         IN  IF outcome # "ok"
             THEN RunRaise(calls, outcome)
             ELSE /\ r_calls' = calls
                  /\ r_product_list' = product_list
                  /\ r_page' = page
                  /\ IF page = <<>>
                     THEN /\ r_offer_ids' =
                                [i \in 1..Len(product_list) |-> product_list[i].offer.shopSku]
                          /\ r_pc' = AfterFetch(r_entry)
                     ELSE UNCHANGED <<r_offer_ids, r_pc>>
                  /\ UNCHANGED <<r_entry, r_catalog, r_feed, r_campaign,
                                 r_watch_remnants, r_stocks, r_prices, r_todo,
                                 r_coroutines, r_exc, r_return>>
    /\ UNCHANGED <<dvars, pvars, mvars, fvars>>

\* download_stock(), seller.py:140-174, called at seller.py:350 and
\* market.py:333.
DownloadStock ==
    /\ r_entry \in Mains
    /\ r_pc = "download_stock"
    /\ \E outcome \in Outcomes :
         LET calls == Append(r_calls, Call("download_stock", "none", <<>>, outcome))
         IN  IF outcome # "ok"
             THEN RunRaise(calls, outcome)
             ELSE /\ r_calls' = calls
                  /\ r_watch_remnants' = r_feed
                  /\ r_pc' = AfterDownload(r_entry)
                  /\ UNCHANGED <<r_entry, r_catalog, r_feed, r_campaign, r_page,
                                 r_product_list, r_offer_ids, r_stocks, r_prices,
                                 r_todo, r_coroutines, r_exc, r_return>>
    /\ UNCHANGED <<dvars, pvars, mvars, fvars>>

\* The value an uploader returns once its loop is over; main returns None.
StocksReturn(entry, stocks) ==
    IF entry \in Mains THEN <<>>
    ELSE <<SelectSeq(stocks, LAMBDA stock :
                        IF entry \in SellerEntries
                        THEN stock.stock # 0 ELSE stock.items[1].count # 0),
           stocks>>

\* stocks = create_stocks(...) and list(divide(stocks, n)): seller.py
\* 352-353 and 329-330, market.py 338-339, 347-348 and 305-306.
RunCreateStocks ==
    /\ r_pc = "create_stocks"
    /\ \E date \in Dates :
         LET r == IF r_entry \in SellerEntries
                  THEN seller_create_stocks(r_watch_remnants, r_offer_ids)
                  ELSE market_create_stocks(r_watch_remnants, r_offer_ids,
                                            WarehouseOf(r_campaign), date)
             todo == divide(r.stocks, StockChunkSize(r_entry)).chunks
         IN  IF r.err # "none"
             THEN /\ r_offer_ids' = r.offer_ids
                  /\ r_calls' = r_calls
                  /\ r_pc' = Handler(r_entry, r_pc, r.err)
                  /\ r_exc' = r.err
                  /\ UNCHANGED <<r_stocks, r_todo, r_return>>
             ELSE /\ r_offer_ids' = r.offer_ids
                  /\ r_stocks' = r.stocks
                  /\ r_todo' = todo
                  /\ r_pc' = LoopPc(todo, "update_stocks", AfterStocks(r_entry))
                  /\ r_return' = IF todo = <<>> THEN StocksReturn(r_entry, r.stocks)
                                 ELSE r_return
                  /\ UNCHANGED <<r_calls, r_exc>>
    /\ UNCHANGED <<r_entry, r_catalog, r_feed, r_campaign, r_page, r_product_list,
                   r_watch_remnants, r_prices, r_coroutines>>
    /\ UNCHANGED <<dvars, pvars, mvars, fvars>>

\* update_stocks(some_stock, ...): one iteration of the for loop.
UpdateStocks ==
    /\ r_pc = "update_stocks"
    /\ \E outcome \in Outcomes :
         LET calls == Append(r_calls,
                         Call("update_stocks", r_campaign, Head(r_todo), outcome))
         IN  IF outcome # "ok"
             THEN RunRaise(calls, outcome)
             ELSE /\ r_calls' = calls
                  /\ r_todo' = Tail(r_todo)
                  /\ r_pc' = LoopPc(Tail(r_todo), "update_stocks", AfterStocks(r_entry))
                  /\ r_return' = IF Tail(r_todo) = <<>>
                                 THEN StocksReturn(r_entry, r_stocks) ELSE r_return
                  /\ UNCHANGED <<r_entry, r_catalog, r_feed, r_campaign, r_page,
                                 r_product_list, r_watch_remnants, r_offer_ids,
                                 r_stocks, r_prices, r_coroutines, r_exc>>
    /\ UNCHANGED <<dvars, pvars, mvars, fvars>>

\* prices = create_prices(...) and list(divide(prices, n)): seller.py
\* 356-357 and 304-305, market.py 280-281.
RunCreatePrices ==
    /\ r_pc = "create_prices"
    /\ LET r == IF r_entry \in SellerEntries
                THEN [err |-> "none",
                      prices |-> seller_create_prices(r_watch_remnants, r_offer_ids)]
                ELSE market_create_prices(r_watch_remnants, r_offer_ids)
           todo == divide(r.prices, PriceChunkSize(r_entry)).chunks
       IN  IF r.err # "none"
           THEN /\ r_pc' = Handler(r_entry, r_pc, r.err)
                /\ r_exc' = r.err
                /\ UNCHANGED <<r_prices, r_todo, r_return>>
           ELSE /\ r_prices' = r.prices
                /\ r_todo' = todo
                /\ r_pc' = LoopPc(todo, "update_price", "done")
                /\ r_return' = IF todo = <<>> /\ r_entry \notin Mains
                               THEN r.prices ELSE r_return
                /\ UNCHANGED <<r_exc>>
    /\ UNCHANGED <<r_entry, r_catalog, r_feed, r_campaign, r_page, r_product_list,
                   r_watch_remnants, r_offer_ids, r_stocks, r_calls, r_coroutines>>
    /\ UNCHANGED <<dvars, pvars, mvars, fvars>>

\* update_price(some_price, ...): one iteration of the for loop.
UpdatePrice ==
    /\ r_pc = "update_price"
    /\ \E outcome \in Outcomes :
         LET calls == Append(r_calls,
                         Call("update_price", r_campaign, Head(r_todo), outcome))
         IN  IF outcome # "ok"
             THEN RunRaise(calls, outcome)
             ELSE /\ r_calls' = calls
                  /\ r_todo' = Tail(r_todo)
                  /\ r_pc' = LoopPc(Tail(r_todo), "update_price", "done")
                  /\ r_return' = IF Tail(r_todo) = <<>> /\ r_entry \notin Mains
                                 THEN r_prices ELSE r_return
                  /\ UNCHANGED <<r_entry, r_catalog, r_feed, r_campaign, r_page,
                                 r_product_list, r_watch_remnants, r_offer_ids,
                                 r_stocks, r_prices, r_coroutines, r_exc>>
    /\ UNCHANGED <<dvars, pvars, mvars, fvars>>

\* market.main, lines 342 and 351: upload_prices(...) is called without
\* await.  upload_prices is declared async def (line 264), so the call
\* only builds a coroutine object: its body does not run, and the object
\* is dropped.  After the FBS call the run goes on to the DBS campaign.
MarketMainUploadPrices ==
    /\ r_entry = "market.main"
    /\ r_pc = "upload_prices"
    /\ r_coroutines' = r_coroutines + 1
    /\ IF r_campaign = "FBS_ID"
       THEN /\ r_campaign' = "DBS_ID"
            /\ r_pc' = "get_offer_ids"
            /\ r_page' = <<>>
            /\ r_product_list' = <<>>
       ELSE /\ r_pc' = "done"
            /\ UNCHANGED <<r_campaign, r_page, r_product_list>>
    /\ UNCHANGED <<r_entry, r_catalog, r_feed, r_watch_remnants, r_offer_ids,
                   r_stocks, r_prices, r_todo, r_calls, r_exc, r_return>>
    /\ UNCHANGED <<dvars, pvars, mvars, fvars>>

Next ==
    \/ SellerGetProductList
    \/ MarketGetProductList
    \/ DownloadStock
    \/ RunCreateStocks
    \/ UpdateStocks
    \/ RunCreatePrices
    \/ UpdatePrice
    \/ MarketMainUploadPrices

Spec == Init /\ [][Next]_vars

(***************************************************************************)
(* SpecFetch: get_offer_ids() of either marketplace against a server that  *)
(* answers each page request as it likes: any page of items, any total,    *)
(* any cursor or token, or a transport failure.                            *)
(***************************************************************************)
MaxRequests == 3
MaxTotal == 3

FetchStyles == {"cursor", "token"}
FetchPages == {<<>>, <<IdX>>, <<IdY, IdX>>}
FetchCursors == {PyStr(<<>>), PyStr(<<"c">>)}
FetchTokens == {PyNone, PyStr(<<>>), PyStr(<<"t">>), PyStr(<<"u">>)}

\* The "result" object of POST /v2/product/list (seller.py:44-47).
SellerResponse(ids, total, last_id) ==
    [items |-> [i \in 1..Len(ids) |-> [offer_id |-> ids[i]]],
     total |-> total,
     last_id |-> last_id]

\* The "result" object of GET offer-mapping-entries (market.py:47-50); a
\* response without nextPageToken has token None (dict.get, line 147).
MarketResponse(ids, token) ==
    [offerMappingEntries |-> [i \in 1..Len(ids) |-> [offer |-> [shopSku |-> ids[i]]]],
     paging |-> [nextPageToken |-> token]]

\* seller.py:71, the test that ends the while loop.
seller_fetch_done(total, product_list) == total = Len(product_list)

\* market.py:148, the test that ends the while loop.
market_fetch_done_absent(page) == page = PyNone

market_fetch_done(page) == ~Truthy(page)

\* seller.py:73-76 and market.py:150-153: the ids of product_list.
seller_offer_ids(product_list) ==
    [i \in 1..Len(product_list) |-> product_list[i].offer_id]

market_offer_ids(product_list) ==
    [i \in 1..Len(product_list) |-> product_list[i].offer.shopSku]

Request(sent, outcome, got) == [sent |-> sent, outcome |-> outcome, got |-> got]

FetchInit ==
    /\ f_style \in FetchStyles
    /\ f_state = "running"
    /\ f_page = PyStr(<<>>)
    /\ f_product_list = <<>>
    /\ f_total = 0
    /\ f_requests = <<>>
    /\ f_served = <<>>
    /\ f_exc = "none"
    /\ f_result = <<>>
    /\ DivideIdle
    /\ PriceIdle
    /\ MapIdle
    /\ RunIdle

\* get_product_list raises (requests.post / raise_for_status): the
\* exception leaves get_offer_ids, which has no handler.
FetchRaise(outcome) ==
    /\ f_requests' = Append(f_requests, Request(f_page, outcome, PyNone))
    /\ f_state' = "raised"
    /\ f_exc' = outcome
    /\ UNCHANGED <<f_style, f_page, f_product_list, f_total, f_served, f_result>>

\* seller.get_offer_ids, lines 66-76: one pass of the while loop; the
\* break runs the loop of lines 73-75 and returns.
CursorFetchPage ==
    /\ f_style = "cursor"
    /\ f_state = "running"
    /\ Len(f_requests) < MaxRequests
    /\ \E outcome \in Outcomes, ids \in FetchPages,
          reported \in 0..MaxTotal, cursor \in FetchCursors :
         LET some_prod == SellerResponse(ids, reported, cursor)
             product_list == f_product_list \o some_prod.items
             total == some_prod.total
             last_id == some_prod.last_id
         IN  IF outcome # "ok"
             THEN FetchRaise(outcome)
             ELSE /\ f_requests' = Append(f_requests, Request(f_page, "ok", last_id))
                  /\ f_served' = f_served \o ids
                  /\ f_product_list' = product_list
                  /\ f_total' = total
                  /\ f_page' = last_id
                  /\ IF seller_fetch_done(total, product_list)
                     THEN /\ f_state' = "returned"
                          /\ f_result' = seller_offer_ids(product_list)
                     ELSE UNCHANGED <<f_state, f_result>>
                  /\ UNCHANGED <<f_style, f_exc>>
    /\ UNCHANGED <<dvars, pvars, mvars, rvars>>

\* market.get_offer_ids, lines 144-153.
TokenFetchPage ==
    /\ f_style = "token"
    /\ f_state = "running"
    /\ Len(f_requests) < MaxRequests
    /\ \E outcome \in Outcomes, ids \in FetchPages, token \in FetchTokens :
         LET some_prod == MarketResponse(ids, token)
             product_list == f_product_list \o some_prod.offerMappingEntries
             page == some_prod.paging.nextPageToken
         IN  IF outcome # "ok"
             THEN FetchRaise(outcome)
             ELSE /\ f_requests' = Append(f_requests, Request(f_page, "ok", page))
                  /\ f_served' = f_served \o ids
                  /\ f_product_list' = product_list
                  /\ f_page' = page
                  /\ IF market_fetch_done(page)
                     THEN /\ f_state' = "returned"
                          /\ f_result' = market_offer_ids(product_list)
                     ELSE UNCHANGED <<f_state, f_result>>
                  /\ UNCHANGED <<f_style, f_total, f_exc>>
    /\ UNCHANGED <<dvars, pvars, mvars, rvars>>

FetchNext ==
    \/ CursorFetchPage
    \/ TokenFetchPage

SpecFetch == FetchInit /\ [][FetchNext]_vars

(***************************************************************************)
(* Properties of divide.                                                   *)
(***************************************************************************)
\* C4: for a chunk size n > 0 the generator never raises; every chunk
\* yielded has between 1 and n elements, every chunk but the latest has
\* exactly n, the chunks yielded so far concatenate to a prefix of the
\* list, and when the generator returns they concatenate to the whole
\* list (so an empty list yields no chunk).
C4_DivideChunks ==
    (d_state # "idle" /\ d_n > 0) =>
        /\ d_state # "ValueError"
        /\ \A k \in 1..Len(d_chunks) : Len(d_chunks[k]) \in 1..d_n
        /\ \A k \in 1..(Len(d_chunks) - 1) : Len(d_chunks[k]) = d_n
        /\ Len(Concat(d_chunks)) <= Len(d_lst)
        /\ Concat(d_chunks) = SubSeq(d_lst, 1, Len(Concat(d_chunks)))
        /\ (d_state = "done" => Concat(d_chunks) = d_lst)
        /\ (d_lst = <<>> => d_chunks = <<>>)

\* Witness of C4: a three-element list cut by n = 2 into a full chunk and
\* a shorter last chunk.
C4_Witness ==
    /\ d_state = "done"
    /\ d_n = 2
    /\ Len(d_lst) = 3
    /\ Len(d_chunks) = 2
    /\ Len(d_chunks[2]) = 1

\* C5: for a chunk size n <= 0, consuming the generator ends in an
\* invalid-argument error without any chunk; it never returns normally.
C5_DivideRejectsNonPositive ==
    (d_state \notin {"idle", "created"} /\ d_n <= 0) =>
        /\ d_state = "ValueError"
        /\ d_chunks = <<>>

(***************************************************************************)
(* Properties of price_conversion.                                         *)
(***************************************************************************)
\* Positions of p that hold an ASCII digit and lie before the first ".".
KeptPositions(p) ==
    {i \in 1..Len(p) : /\ p[i] \in AsciiDigits
                       /\ \A h \in 1..i : p[h] # "."}

\* C8: the result is the ASCII digits that precede the first "." of the
\* price, in their order: as many characters as there are such positions,
\* the i-th such position supplying the i-th character; the documented
\* examples give "5990", "12", "" and "1".
C8_PriceNormalizer ==
    p_called =>
        /\ Len(p_result) = Cardinality(KeptPositions(p_price))
        /\ \A i \in KeptPositions(p_price) :
               p_result[Cardinality({j \in KeptPositions(p_price) : j <= i})] = p_price[i]
        /\ (p_price = Price5990 => p_result = <<"5", "9", "9", "0">>)
        /\ (p_price = Price1234 => p_result = <<"1", "2">>)
        /\ (p_price = PriceAbc => p_result = <<>>)
        /\ (p_price = Price1999 => p_result = <<"1">>)

\* Witness of C8: the documented price with a thousands mark, a fraction
\* and a currency suffix has been converted.
C8_Witness ==
    /\ p_called
    /\ p_price = Price5990
    /\ p_result = <<"5", "9", "9", "0">>

(***************************************************************************)
(* Properties of the mappers.                                              *)
(***************************************************************************)
StockCalls == {"seller.create_stocks", "market.create_stocks"}
PriceCalls == {"seller.create_prices", "market.create_prices"}

\* The offer id and the count of a stock record of either marketplace.
StockId(rec) == IF "offer_id" \in DOMAIN rec THEN rec.offer_id ELSE rec.sku
StockCount(rec) == IF "stock" \in DOMAIN rec THEN rec.stock ELSE rec.items[1].count
PriceId(rec) == IF "offer_id" \in DOMAIN rec THEN rec.offer_id ELSE rec.id

Occurrences(lst, x) == Cardinality({i \in 1..Len(lst) : lst[i] = x})

\* C1: after a stock mapping that returned, every offer id of the list it
\* was given is the id of exactly one record of the result, and every
\* record of the result carries an id of that list.
C1_StockExactlyOnce ==
    (m_call \in StockCalls /\ m_err = "none") =>
        /\ \A i \in 1..Len(m_in) :
               Cardinality({k \in 1..Len(m_result) : StockId(m_result[k]) = m_in[i]}) = 1
        /\ \A k \in 1..Len(m_result) : ListIn(StockId(m_result[k]), m_in)

\* The remnants a stock mapping matches: a remnant is matched while fewer
\* earlier remnants carry its code than the offer-id list holds occurrences
\* of it.
MatchedRemnants(remnants, ids) ==
    {j \in 1..Len(remnants) :
        Cardinality({k \in 1..(j - 1) :
                        PyStrOf(remnants[k].code) = PyStrOf(remnants[j].code)})
            < Occurrences(ids, PyStrOf(remnants[j].code))}

\* The count each quantity of the feed stands for.
NonNumeric == {Qty_abc, Qty_empty, Qty_gt1, Qty_1_, Qty_minus_pad3, Qty_fs7}
ExpectedCount(q) ==
    CASE q = Qty_gt10 -> 100
      [] q = Qty_1 -> 0
      [] q = PyInt(1) -> 0
      [] q = Qty_7 -> 7
      [] q = PyInt(7) -> 7
      [] q = Qty_5 -> 5
      [] q = Qty_10 -> 10
      [] q = Qty_pad7 -> 7
      [] q = Qty_neg3 -> 0 - 3
      [] q = Qty_tab7 -> 7
      [] q = Qty_7lf -> 7
      [] q = Qty_nbsp7 -> 7
      [] q = Qty_arab3 -> 3
      [] q = Qty_1_0 -> 10
      [] q = Qty_pad1 -> 1
      [] q = Qty_em7 -> 7
      [] q = Qty_7nel -> 7
      [] q = Qty_full7 -> 7
      [] q = Qty_1ext3 -> 13

\* C6: a stock mapping raises ValueError, returning nothing, exactly when
\* a matched remnant has a quantity that is neither a sentinel nor
\* numeric; otherwise the i-th matched remnant supplies the i-th record,
\* with count 100 for ">10", 0 for "1" and the integer value otherwise.
C6_StockCountRule ==
    m_call \in StockCalls =>
        LET M == MatchedRemnants(m_remnants, m_in)
            bad == \E j \in M : m_remnants[j].qty \in NonNumeric
        IN  /\ (m_err # "none") <=> bad
            /\ bad => (m_err = "ValueError" /\ m_result = <<>>)
            /\ ~bad =>
                 \A j \in M :
                    LET pos == Cardinality({k \in M : k <= j})
                    IN  /\ pos <= Len(m_result)
                        /\ StockId(m_result[pos]) = PyStrOf(m_remnants[j].code)
                        /\ StockCount(m_result[pos]) = ExpectedCount(m_remnants[j].qty)

\* Witness of C6: both sentinels were mapped, the second from a row whose
\* code is the integer 7.
C6_Witness ==
    /\ m_call = "seller.create_stocks"
    /\ m_err = "none"
    /\ m_remnants = <<Row(PyStr(IdA), Qty_gt10, Price1500), Row(PyInt(7), Qty_1, Price1500)>>
    /\ m_in = <<Id7, IdA, IdB>>
    /\ m_result = <<[offer_id |-> IdA, stock |-> 100], [offer_id |-> Id7, stock |-> 0],
                    [offer_id |-> IdB, stock |-> 0]>>

\* C7: after a price mapping, every record of the result has an id that is
\* the code of a remnant and a member of the offer-id list given; an offer
\* id without a remnant has no record; the offer-id list is as it was.
C7_PriceExclusivity ==
    m_call \in PriceCalls =>
        /\ m_offer_ids = m_in
        /\ \A k \in 1..Len(m_result) :
               /\ ListIn(PriceId(m_result[k]), m_in)
               /\ \E j \in 1..Len(m_remnants) :
                      PyStrOf(m_remnants[j].code) = PriceId(m_result[k])
        /\ \A i \in 1..Len(m_in) :
               (\A j \in 1..Len(m_remnants) : PyStrOf(m_remnants[j].code) # m_in[i])
                   => \A k \in 1..Len(m_result) : PriceId(m_result[k]) # m_in[i]

\* Witness of C7: prices were mapped for a list holding an id without a
\* remnant, and the one remnant in the list got its record.
C7_Witness ==
    /\ m_call = "seller.create_prices"
    /\ m_remnants = <<Row(PyStr(IdA), Qty_5, Price1500)>>
    /\ m_in = <<IdA, IdB>>
    /\ m_offer_ids = <<IdA, IdB>>
    /\ Len(m_result) = 1
    /\ m_result[1].offer_id = IdA
    /\ m_result[1].price = <<"1", "5", "0", "0">>

\* The elements of lst at the positions of S, in the order of lst.
SubSeqAt(lst, S) ==
    [q \in 1..Cardinality(S) |->
        lst[CHOOSE i \in S : Cardinality({k \in S : k <= i}) = q]]

\* C13: the list a stock mapping returns is the records of the matched
\* remnants, in feed order, followed by zero-count records whose ids are
\* the unmatched ids of the list given, one per unmatched occurrence and
\* in the order the list had them; no record past the matched ones belongs
\* to a remnant.
C13_StockOrder ==
    (m_call \in StockCalls /\ m_err = "none") =>
        LET M == MatchedRemnants(m_remnants, m_in)
            m == Cardinality(M)
            head == SubSeqAt(m_remnants, M)
            tail == [q \in 1..(Len(m_result) - m) |-> StockId(m_result[m + q])]
        IN  /\ Len(m_result) >= m
            /\ \A q \in 1..m : StockId(m_result[q]) = PyStrOf(head[q].code)
            /\ \A q \in (m + 1)..Len(m_result) : StockCount(m_result[q]) = 0
            /\ \E S \in SUBSET (1..Len(m_in)) : tail = SubSeqAt(m_in, S)
            /\ \A x \in Elems(m_in) :
                   Occurrences(tail, x) =
                       Occurrences(m_in, x)
                           - Cardinality({j \in M : PyStrOf(m_remnants[j].code) = x})

\* Witness of C13: the remnant of the second id of the list was mapped
\* first, then the first and the third id were zero-filled in list order.
C13_Witness ==
    /\ m_call = "market.create_stocks"
    /\ m_err = "none"
    /\ m_remnants = <<Row(PyStr(IdA), Qty_5, Price1500)>>
    /\ m_in = <<IdB, IdA, Id7>>
    /\ Len(m_result) = 3
    /\ <<StockId(m_result[1]), StockId(m_result[2]), StockId(m_result[3])>>
           = <<IdA, IdB, Id7>>
    /\ <<StockCount(m_result[1]), StockCount(m_result[2]), StockCount(m_result[3])>>
           = <<5, 0, 0>>

(***************************************************************************)
(* Properties of the runs.                                                 *)
(***************************************************************************)
Caught == {"caught_ReadTimeout", "caught_ConnectionError", "caught_Exception"}

\* The payloads of the calls of fn issued for a campaign, in call order.
Payloads(fn, campaign) ==
    LET sel == SelectSeq(r_calls, LAMBDA c : c.fn = fn /\ c.campaign = campaign)
    IN  [k \in 1..Len(sel) |-> sel[k].payload]

CeilDiv(a, b) == (a + b - 1) \div b

\* The k-th chunk of size n of a list.
ChunkAt(lst, n, k) == SubSeq(lst, (k - 1) * n + 1, Min(k * n, Len(lst)))

\* C2: when seller.main ends in success, the price update calls carry a
\* price record for every remnant whose code is in the fetched catalog;
\* for the catalog X, Y and the one remnant X, "5", "1'500.00 rub." the
\* stock calls carry X:5, Y:0 and the price calls carry X:"1500".
C2_SellerEndToEnd ==
    (r_entry = "seller.main" /\ r_pc = "done") =>
        /\ Concat(Payloads("update_price", "CLIENT_ID"))
               = seller_create_prices(r_feed, r_catalog["CLIENT_ID"])
        /\ (r_catalog["CLIENT_ID"] = <<IdX, IdY>> /\ r_feed = <<RowX>>) =>
              /\ Concat(Payloads("update_stocks", "CLIENT_ID"))
                     = <<[offer_id |-> IdX, stock |-> 5], [offer_id |-> IdY, stock |-> 0]>>
              /\ Concat(Payloads("update_price", "CLIENT_ID"))
                     = <<[auto_action_enabled |-> "UNKNOWN", currency_code |-> "RUB",
                          offer_id |-> IdX, old_price |-> "0",
                          price |-> <<"1", "5", "0", "0">>]>>

\* C3: market.main ends in success only after it has issued, for the FBS
\* and for the DBS campaign, one price update call per 500-record chunk of
\* the prices mapped from the feed and the campaign's catalog.
C3_MarketPricesIssued ==
    (r_entry = "market.main" /\ r_pc = "done") =>
        \A c \in {"FBS_ID", "DBS_ID"} :
            Len(Payloads("update_price", c))
                = CeilDiv(Len(market_create_prices(r_feed, r_catalog[c]).prices),
                          MarketPriceChunk)

\* One upload loop: the calls issued so far carry the first chunks of the
\* list, in order, each of 1..n records; once the loop is over there have
\* been exactly ceil(L/n) calls and their payloads concatenate to the list.
LoopAsChunked(payloads, lst, n, over) ==
    /\ Len(payloads) <= CeilDiv(Len(lst), n)
    /\ \A k \in 1..Len(payloads) :
          /\ payloads[k] = ChunkAt(lst, n, k)
          /\ Len(payloads[k]) \in 1..n
    /\ over => /\ Len(payloads) = CeilDiv(Len(lst), n)
               /\ Concat(payloads) = lst

\* C9: every stock loop and every price loop of every entry point uploads
\* its list as the chunks of that list, one call per chunk, in order
\* (n = 100 / 2000 for stocks, 900 / 1000 / 500 for prices).
C9_BatchUploader ==
    r_entry \in Entries =>
        /\ LoopAsChunked(Payloads("update_stocks", r_campaign), r_stocks,
                         StockChunkSize(r_entry),
                         r_pc \in {"create_prices", "update_price", "upload_prices", "done"})
        /\ LoopAsChunked(Payloads("update_price", r_campaign), r_prices,
                         PriceChunkSize(r_entry), r_pc = "done")

\* Witness of C9: seller.upload_prices has uploaded 2500 price records in
\* three calls of 1000, 1000 and 500 records.
C9_Witness ==
    /\ r_entry = "seller.upload_prices"
    /\ r_pc = "done"
    /\ Len(r_prices) = 2500
    /\ Len(Payloads("update_price", "CLIENT_ID")) = 3
    /\ Len(Payloads("update_price", "CLIENT_ID")[1]) = 1000
    /\ Len(Payloads("update_price", "CLIENT_ID")[2]) = 1000
    /\ Len(Payloads("update_price", "CLIENT_ID")[3]) = 500

\* C10: in seller.main and market.main every exception raised by a step
\* of the run ends the run in one of the three handlers, the failed call
\* being the last call issued and every earlier call having succeeded.
C10_FailuresCaught ==
    (r_entry \in Mains /\ r_exc # "none") =>
        /\ r_pc \in Caught
        /\ \A k \in 1..(Len(r_calls) - 1) : r_calls[k].outcome = "ok"

(***************************************************************************)
(* Properties of the catalog fetchers.                                     *)
(***************************************************************************)
\* The requests of a fetch form a chain: the first sends the empty string,
\* every later one sends what the previous response carried as its cursor;
\* only the latest request can have failed.
RequestChain ==
    \A k \in 1..Len(f_requests) :
        /\ f_requests[k].sent = (IF k = 1 THEN PyStr(<<>>) ELSE f_requests[k - 1].got)
        /\ k < Len(f_requests) => f_requests[k].outcome = "ok"

LastOk == f_requests # <<>> /\ f_requests[Len(f_requests)].outcome = "ok"

\* C11: in a cursor fetch the requests form a chain from the empty cursor;
\* after a page the loop goes on only while fewer items are accumulated
\* than the page's total, so that the call has returned whenever the
\* accumulated count is at least the latest total; it returns the offer_id
\* of every item served, in page order.
C11_CursorFetch ==
    f_style = "cursor" =>
        /\ RequestChain
        /\ (f_state = "running" /\ LastOk) => Len(f_served) < f_total
        /\ (LastOk /\ Len(f_served) >= f_total) => f_state = "returned"
        /\ f_state = "returned" => (LastOk /\ f_result = f_served)

\* C12: in a token fetch the requests form a chain from the empty token;
\* the loop goes on after a response exactly when its token is a non-empty
\* string, and has returned after the first response whose token is absent
\* or empty; it returns the shopSku of every entry served, in page order;
\* a failed request ends the call with that exception, and no request
\* follows it.
C12_TokenFetch ==
    f_style = "token" =>
        /\ RequestChain
        /\ \A k \in 1..(Len(f_requests) - 1) :
               f_requests[k].got.t = "str" /\ f_requests[k].got.s # <<>>
        /\ LastOk =>
               LET got == f_requests[Len(f_requests)].got
               IN  /\ f_exc = "none"
                   /\ f_state = (IF got.t = "str" /\ got.s # <<>>
                                 THEN "running" ELSE "returned")
        /\ (f_requests # <<>> /\ ~LastOk) =>
               /\ f_state = "raised"
               /\ f_exc = f_requests[Len(f_requests)].outcome
               /\ f_result = <<>>
        /\ f_state = "returned" => f_result = f_served
        /\ f_state = "running" => f_page = (IF f_requests = <<>> THEN PyStr(<<>>)
                                            ELSE f_requests[Len(f_requests)].got)

\* Witness of C12: a fetch of three pages returned after a response with
\* an empty token, with the entries of all pages, one id twice.
C12_Witness ==
    /\ f_style = "token"
    /\ f_state = "returned"
    /\ Len(f_requests) = 3
    /\ f_requests[1].got = PyStr(<<"t">>)
    /\ f_requests[2].got = PyStr(<<"u">>)
    /\ f_requests[3].got = PyStr(<<>>)
    /\ f_result = <<IdX, IdY, IdX>>

(***************************************************************************)
(* The offer-id list shared by the two mappers of a run.                   *)
(***************************************************************************)
\* The codes, as strings, of the remnants whose code is in the list ids,
\* in feed order.
CodesIn(remnants, ids) ==
    LET S == Elems(ids)
        sel == SelectSeq(remnants, LAMBDA watch : PyStrOf(watch.code) \in S)
    IN  [k \in 1..Len(sel) |-> PyStrOf(sel[k].code)]

\* A run of entry has mapped its stocks / its prices.
StocksMapped(entry) ==
    r_entry = entry /\ r_pc \in {"update_stocks", "create_prices", "update_price", "done"}
PricesMapped(entry) ==
    r_entry = entry /\ r_pc \in {"update_price", "done"}

\* C14: once a Marketplace A run has mapped its stocks, its offer-id list
\* holds exactly the ids of the zero-filled records, one occurrence of each
\* fetched id having gone to each record before them; seller.main maps its
\* prices from that list, so a price record exists only for a remnant whose
\* code is still in it, and when the fetched ids are pairwise distinct the
\* run has no price record and issues no price update call; the standalone
\* upload_prices has a price record for every remnant whose code is in the
\* fetched catalog.
C14_SharedWorkingSet ==
    LET fetched == r_catalog["CLIENT_ID"]
        distinct == Cardinality(Elems(fetched)) = Len(fetched)
        m == Len(r_stocks) - Len(r_offer_ids)
        matched == [q \in 1..m |-> r_stocks[q].offer_id]
    IN  /\ (StocksMapped("seller.main") \/ StocksMapped("seller.upload_stocks")) =>
              /\ Len(r_stocks) = Len(fetched)
              /\ \A q \in 1..Len(r_offer_ids) :
                     r_stocks[m + q] = [offer_id |-> r_offer_ids[q], stock |-> 0]
              /\ Elems(matched)
                     \subseteq {PyStrOf(r_watch_remnants[j].code) :
                                    j \in 1..Len(r_watch_remnants)}
              /\ IF distinct
                 THEN /\ Elems(matched) \cap Elems(r_offer_ids) = {}
                      /\ Elems(matched) \cup Elems(r_offer_ids) = Elems(fetched)
                 ELSE \A x \in Elems(fetched) :
                          Occurrences(fetched, x)
                              = Occurrences(matched, x) + Occurrences(r_offer_ids, x)
        /\ PricesMapped("seller.main") =>
              /\ [k \in 1..Len(r_prices) |-> r_prices[k].offer_id]
                     = CodesIn(r_watch_remnants, r_offer_ids)
              /\ distinct => r_prices = <<>>
        /\ (r_entry = "seller.main" /\ distinct) =>
              Payloads("update_price", "CLIENT_ID") = <<>>
        /\ PricesMapped("seller.upload_prices") =>
              [k \in 1..Len(r_prices) |-> r_prices[k].offer_id]
                  = CodesIn(r_watch_remnants, fetched)

\* Witness of C14: seller.main ended in success on the catalog X, Y and
\* the one remnant X: X went to the stock record, Y was zero-filled and is
\* all the list holds, and no price was mapped or sent.
C14_Witness ==
    /\ r_entry = "seller.main"
    /\ r_pc = "done"
    /\ r_catalog["CLIENT_ID"] = <<IdX, IdY>>
    /\ r_watch_remnants = <<RowX>>
    /\ r_stocks = <<[offer_id |-> IdX, stock |-> 5], [offer_id |-> IdY, stock |-> 0]>>
    /\ r_offer_ids = <<IdY>>
    /\ r_prices = <<>>
    /\ Len(Payloads("update_stocks", "CLIENT_ID")) = 1
    /\ Payloads("update_price", "CLIENT_ID") = <<>>

====
